---- MODULE Spec2Model ----
(***************************************************************************)
(* Consistency Tracker (src/script.js): the habit store kept in            *)
(* localStorage, the operations on it, and the statistics and date-range   *)
(* engine, as a state machine.                                             *)
(*                                                                         *)
(* Encoding of JavaScript values                                           *)
(*   - a canonical date string "YYYY-MM-DD" is the integer YYYYMMDD: the   *)
(*     code compares date strings with <, <=, >=, and on the canonical     *)
(*     form the lexicographic order is the numeric order of YYYYMMDD;      *)
(*   - a Date object is [day |-> days since 1970-01-01, ms |-> ms of day]; *)
(*     the time value day * MsPerDay + ms itself exceeds 32 bits;          *)
(*   - a habit is a TLA+ record; a property the object lacks is a field    *)
(*     the record lacks, and reading it yields undefined;                  *)
(*   - NaN is the integer NaN, tested for wherever the code's arithmetic   *)
(*     or comparisons can meet it.                                         *)
(* The host's time zone is taken to have a fixed offset to UTC over the    *)
(* dates used, so that Date.setDate(getDate() + n) moves the instant by    *)
(* exactly n days.                                                         *)
(***************************************************************************)
EXTENDS Integers, Sequences, FiniteSets, TLC

VARIABLES
    storage,    \* localStorage[STORAGE_KEY]: <<>> when no item is stored, else <<list of habits>>
    now,        \* the system clock, as a Date
    call        \* the last call made into the script, its arguments and its return value

vars == <<storage, now, call>>

-----------------------------------------------------------------------------
(* Program constants *)

MAX_HABIT_DURATION_DAYS == 90

MsPerDay == 86400000

DefaultSpan == 21

\* reading an absent property
undefined == 0

\* the number NaN (Math.floor of a difference with an Invalid Date)
NaN == -999999

\* a stored completionDates value that is truthy but no array
NonArray == <<undefined>>

-----------------------------------------------------------------------------
(* Bounds of the model *)

MaxHabits == 2       \* habits the store is allowed to hold
MaxTicks == 2        \* milliseconds the clock may advance
MaxStored == 4       \* entries of a completionDates array found in storage
MaxSpan == 153       \* days from 2024-01-01 to the last end date given to the range validator

-----------------------------------------------------------------------------
(* Date utilities *)

\* ISO 8601 parse of "YYYY-MM-DD" + "T00:00:00Z": days since the epoch of a civil date
DaysFromCivil(y, m, d) ==
    LET yy  == IF m <= 2 THEN y - 1 ELSE y
        era == yy \div 400
        yoe == yy - era * 400
        mp  == IF m > 2 THEN m - 3 ELSE m + 9
        doy == (153 * mp + 2) \div 5 + d - 1
        doe == yoe * 365 + yoe \div 4 - yoe \div 100 + doy
    IN  era * 146097 + doe - 719468

\* Date.prototype.toISOString().split('T')[0]: the civil date of a day number, as YYYYMMDD
CivilFromDays(z) ==
    LET zz  == z + 719468
        era == zz \div 146097
        doe == zz - era * 146097
        yoe == (doe - doe \div 1460 + doe \div 36524 - doe \div 146096) \div 365
        doy == doe - (365 * yoe + yoe \div 4 - yoe \div 100)
        mp  == (5 * doy + 2) \div 153
        d   == doy - (153 * mp + 2) \div 5 + 1
        m   == IF mp < 10 THEN mp + 3 ELSE mp - 9
        y   == yoe + era * 400 + (IF m <= 2 THEN 1 ELSE 0)
    IN  y * 10000 + m * 100 + d

InvalidDate == [day |-> NaN, ms |-> 0]

getDateString(date) == CivilFromDays(date.day)

getTodayDateString == getDateString(now)

getDateFromString(dateStr) ==
    IF dateStr = undefined
    THEN InvalidDate
    ELSE [day |-> DaysFromCivil(dateStr \div 10000, (dateStr \div 100) % 100, dateStr % 100),
          ms  |-> 0]

\* Math.floor((end - start) / MsPerDay)
calculateDaysDifference(startStr, endStr) ==
    LET start == getDateFromString(startStr)
        end   == getDateFromString(endStr)
    IN  IF start.day = NaN \/ end.day = NaN
        THEN NaN
        ELSE (end.day - start.day) + (IF end.ms - start.ms < 0 THEN -1 ELSE 0)

\* date.setDate(date.getDate() + days)
setDate(date, days) == [date EXCEPT !.day = @ + days]

addDaysToDate(dateStr, days) == getDateString(setDate(getDateFromString(dateStr), days))

-----------------------------------------------------------------------------
(* Range validator *)

\* validateDateRange with the maximum compared by >= (an off-by-one slip)
validateDateRangeExclusive(startDateStr, endDateStr) ==
    LET start    == getDateFromString(startDateStr)
        end      == getDateFromString(endDateStr)
        daysDiff == calculateDaysDifference(startDateStr, endDateStr)
    IN  IF end.day < start.day \/ (end.day = start.day /\ end.ms <= start.ms)
        THEN [valid |-> FALSE, error |-> <<"End date must be after start date">>]
        ELSE IF daysDiff >= MAX_HABIT_DURATION_DAYS
        THEN [valid |-> FALSE,
              error |-> <<"Maximum duration is ", MAX_HABIT_DURATION_DAYS,
                          " days. Your range is ", daysDiff, " days.">>]
        ELSE [valid |-> TRUE, error |-> <<>>]

validateDateRange(startDateStr, endDateStr) ==
    LET start    == getDateFromString(startDateStr)
        end      == getDateFromString(endDateStr)
        daysDiff == calculateDaysDifference(startDateStr, endDateStr)
    IN  IF end.day < start.day \/ (end.day = start.day /\ end.ms <= start.ms)
        THEN [valid |-> FALSE, error |-> <<"End date must be after start date">>]
        ELSE IF daysDiff > MAX_HABIT_DURATION_DAYS
        THEN [valid |-> FALSE,
              error |-> <<"Maximum duration is ", MAX_HABIT_DURATION_DAYS,
                          " days. Your range is ", daysDiff, " days.">>]
        ELSE [valid |-> TRUE, error |-> <<>>]

-----------------------------------------------------------------------------
(* Habit records *)

Has(habit, field) == field \in DOMAIN habit

Prop(habit, field) == IF Has(habit, field) THEN habit[field] ELSE undefined

\* !habit.completionDates || !Array.isArray(habit.completionDates)
NoCompletionArray(habit) ==
    \/ ~Has(habit, "completionDates")
    \/ habit.completionDates = NonArray

Includes(seq, x) == \E i \in 1..Len(seq) : seq[i] = x

isHabitCompletedOnDate(habit, dateStr) ==
    IF NoCompletionArray(habit) THEN FALSE ELSE Includes(habit.completionDates, dateStr)

\* isDateWithinRange without the comparison against startDate
isDateWithinRangeNoStart(habit, dateStr) ==
    /\ Prop(habit, "startDate") # undefined
    /\ Prop(habit, "endDate") # undefined
    /\ dateStr <= habit.endDate

isDateWithinRange(habit, dateStr) ==
    /\ Prop(habit, "startDate") # undefined
    /\ Prop(habit, "endDate") # undefined
    /\ dateStr >= habit.startDate
    /\ dateStr <= habit.endDate

\* getHabitStatus with the last day of the range counted as over (today >= habit.endDate)
getHabitStatusEndExclusive(habit) ==
    LET today == getTodayDateString
    IN  IF Prop(habit, "startDate") # undefined /\ today < habit.startDate
        THEN "not-started"
        ELSE IF Prop(habit, "endDate") # undefined /\ today >= habit.endDate
        THEN "completed"
        ELSE "active"

getHabitStatus(habit) ==
    LET today == getTodayDateString
    IN  IF Prop(habit, "startDate") # undefined /\ today < habit.startDate
        THEN "not-started"
        ELSE IF Prop(habit, "endDate") # undefined /\ today > habit.endDate
        THEN "completed"
        ELSE "active"

-----------------------------------------------------------------------------
(* Statistics engine *)

SelectWithinRange(habit, dates) == SelectSeq(dates, LAMBDA date : isDateWithinRange(habit, date))

RECURSIVE Insert(_, _)
\* x placed before the first entry greater than it
Insert(seq, x) ==
    IF seq = <<>> THEN <<x>>
    ELSE IF x < Head(seq) THEN <<x>> \o seq
    ELSE <<Head(seq)>> \o Insert(Tail(seq), x)

RECURSIVE Sort(_)
\* Array.prototype.sort() on canonical date strings: ascending, duplicates kept
Sort(seq) == IF seq = <<>> THEN <<>> ELSE Insert(Sort(Tail(seq)), Head(seq))

RECURSIVE CurrentStreakFrom(_, _, _)
\* the while (true) loop of calculateCurrentStreak, at currentDate with streak counted so far
CurrentStreakFrom(habit, currentDate, streak) ==
    LET dateStr == getDateString(currentDate)
    IN  IF ~isDateWithinRange(habit, dateStr) THEN streak
        ELSE IF isHabitCompletedOnDate(habit, dateStr)
        THEN CurrentStreakFrom(habit, setDate(currentDate, -1), streak + 1)
        ELSE streak

\* calculateCurrentStreak with a grace day: the walk starts at yesterday when today is not completed
calculateCurrentStreakGrace(habit) ==
    IF isHabitCompletedOnDate(habit, getTodayDateString)
    THEN CurrentStreakFrom(habit, now, 0)
    ELSE CurrentStreakFrom(habit, setDate(now, -1), 0)

calculateCurrentStreak(habit) == CurrentStreakFrom(habit, now, 0)

Max(a, b) == IF a >= b THEN a ELSE b

Min(a, b) == IF a <= b THEN a ELSE b

RECURSIVE LongestStreakFrom(_, _, _, _)
\* the for loop of calculateLongestStreak, at index i
LongestStreakFrom(sortedDates, i, maxStreak, currentStreak) ==
    IF i > Len(sortedDates) THEN maxStreak
    ELSE LET prevDate == getDateFromString(sortedDates[i - 1])
             currDate == getDateFromString(sortedDates[i])
         IN  IF currDate.day - prevDate.day = 1 /\ currDate.ms = prevDate.ms
             THEN LongestStreakFrom(sortedDates, i + 1,
                                    Max(maxStreak, currentStreak + 1), currentStreak + 1)
             ELSE LongestStreakFrom(sortedDates, i + 1, maxStreak, 1)

calculateLongestStreak(habit) ==
    IF NoCompletionArray(habit) THEN 0
    ELSE LET datesInRange == SelectWithinRange(habit, habit.completionDates)
         IN  IF Len(datesInRange) = 0 THEN 0
             ELSE LongestStreakFrom(Sort(datesInRange), 2, 1, 1)

calculateTotalCompleted(habit) ==
    IF NoCompletionArray(habit) THEN 0
    ELSE Len(SelectWithinRange(habit, habit.completionDates))

\* Math.round((completedDays / daysDiff) * 100) for daysDiff # 0: the nearest integer, a half rounded up
RoundPercent(completedDays, daysDiff) ==
    IF daysDiff > 0
    THEN (200 * completedDays + daysDiff) \div (2 * daysDiff)
    ELSE (-200 * completedDays - daysDiff) \div (-2 * daysDiff)

\* calculateCompletionPercentage without the Math.min(percentage, 100) clamp
calculateCompletionPercentageUnclamped(habit) ==
    LET span     == calculateDaysDifference(Prop(habit, "startDate"), Prop(habit, "endDate"))
        daysDiff == IF span = NaN THEN NaN ELSE span + 1
    IN  IF daysDiff = 0 THEN 0
        ELSE IF daysDiff = NaN THEN NaN
        ELSE RoundPercent(calculateTotalCompleted(habit), daysDiff)

calculateCompletionPercentage(habit) ==
    LET span     == calculateDaysDifference(Prop(habit, "startDate"), Prop(habit, "endDate"))
        daysDiff == IF span = NaN THEN NaN ELSE span + 1
    IN  IF daysDiff = 0 THEN 0
        ELSE IF daysDiff = NaN THEN NaN
        ELSE Min(RoundPercent(calculateTotalCompleted(habit), daysDiff), 100)

getDaysToDisplay(habit) ==
    LET span     == calculateDaysDifference(Prop(habit, "startDate"), Prop(habit, "endDate"))
        daysDiff == IF span = NaN THEN NaN ELSE span + 1
        first    == getDateFromString(Prop(habit, "startDate"))
    IN  IF daysDiff = NaN THEN <<>>
        ELSE [i \in 1..daysDiff |-> getDateString(setDate(first, i - 1))]

\* the values renderHabit computes for one card
renderHabit(habit) ==
    [status            |-> getHabitStatus(habit),
     currentStreak     |-> calculateCurrentStreak(habit),
     bestStreak        |-> calculateLongestStreak(habit),
     totalCompleted    |-> calculateTotalCompleted(habit),
     completionPercent |-> calculateCompletionPercentage(habit),
     daysToShow        |-> getDaysToDisplay(habit)]

-----------------------------------------------------------------------------
(* The habit store *)

getHabits == IF storage = <<>> THEN <<>> ELSE storage[1]

\* the stored item after localStorage.setItem(STORAGE_KEY, JSON.stringify(habits))
saveHabits(habits) == <<habits>>

\* Date.now().toString(): the decimal numeral of day * MsPerDay + ms, kept as the pair
toString(date) == <<date.day, date.ms>>

\* new Date().toISOString(): date and time of day
toISOString(date) == <<getDateString(date), date.ms>>

RECURSIVE TrimStart(_)
TrimStart(str) == IF str # <<>> /\ Head(str) = " " THEN TrimStart(Tail(str)) ELSE str

RECURSIVE TrimEnd(_)
TrimEnd(str) ==
    IF str # <<>> /\ str[Len(str)] = " " THEN TrimEnd(SubSeq(str, 1, Len(str) - 1)) ELSE str

\* String.prototype.trim() on a string given as its characters
trim(str) == TrimEnd(TrimStart(str))

UnnamedHabit == <<"U", "n", "n", "a", "m", "e", "d", " ", "H", "a", "b", "i", "t">>

\* index (from 1) of the first habit with this id, 0 when there is none: habits.find
FindIndex(habits, habitId) ==
    IF \E i \in 1..Len(habits) : Has(habits[i], "id") /\ habits[i].id = habitId
    THEN CHOOSE i \in 1..Len(habits) :
            /\ Has(habits[i], "id") /\ habits[i].id = habitId
            /\ \A j \in 1..(i - 1) : ~(Has(habits[j], "id") /\ habits[j].id = habitId)
    ELSE 0

\* index (from 1) of the first occurrence of x, 0 when there is none: Array.prototype.indexOf
IndexOf(seq, x) ==
    IF Includes(seq, x)
    THEN CHOOSE i \in 1..Len(seq) : seq[i] = x /\ \A j \in 1..(i - 1) : seq[j] # x
    ELSE 0

\* Array.prototype.splice(index, 1)
Splice(seq, index) == SubSeq(seq, 1, index - 1) \o SubSeq(seq, index + 1, Len(seq))

\* a record with one property set (added when absent)
SetProp(habit, field, value) ==
    [f \in DOMAIN habit \cup {field} |-> IF f = field THEN value ELSE habit[f]]

\* createHabit without the early return on a validation failure
createHabitUnvalidated(name, startDateStr, endDateStr) ==
    LET newHabit == [id              |-> toString(now),
                     name            |-> trim(name),
                     startDate       |-> startDateStr,
                     endDate         |-> endDateStr,
                     createdAt       |-> toISOString(now),
                     completionDates |-> <<>>]
    IN  [storage |-> saveHabits(Append(getHabits, newHabit)),
         ret     |-> [success |-> TRUE, habit |-> newHabit]]

\* createHabit: the stored item afterwards and the value returned
createHabit(name, startDateStr, endDateStr) ==
    LET validation == validateDateRange(startDateStr, endDateStr)
        newHabit   == [id              |-> toString(now),
                       name            |-> trim(name),
                       startDate       |-> startDateStr,
                       endDate         |-> endDateStr,
                       createdAt       |-> toISOString(now),
                       completionDates |-> <<>>]
    IN  IF ~validation.valid
        THEN [storage |-> storage,
              ret     |-> [success |-> FALSE, error |-> validation.error]]
        ELSE [storage |-> saveHabits(Append(getHabits, newHabit)),
              ret     |-> [success |-> TRUE, habit |-> newHabit]]

\* deleteHabit with the filter inverted (h.id === habitId)
deleteHabitInverted(habitId) ==
    saveHabits(SelectSeq(getHabits, LAMBDA h : Has(h, "id") /\ h.id = habitId))

\* deleteHabit: the stored item afterwards
deleteHabit(habitId) ==
    saveHabits(SelectSeq(getHabits, LAMBDA h : ~(Has(h, "id") /\ h.id = habitId)))

\* ToggledDates with splice(index) for splice(index, 1): the date and all after it removed
ToggledDatesSpliceToEnd(habit, dateStr) ==
    LET dates == IF NoCompletionArray(habit) THEN <<>> ELSE habit.completionDates
        index == IndexOf(dates, dateStr)
    IN  IF index > 0 THEN SubSeq(dates, 1, index - 1) ELSE Append(dates, dateStr)

\* the completionDates array toggleHabitCompletion leaves in the habit it found
ToggledDates(habit, dateStr) ==
    LET dates == IF NoCompletionArray(habit) THEN <<>> ELSE habit.completionDates
        index == IndexOf(dates, dateStr)
    IN  IF index > 0 THEN Splice(dates, index) ELSE Append(dates, dateStr)

\* the list toggleHabitCompletion holds once it has toggled dateStr in the habit it found
ToggleIn(habits, habitId, dateStr) ==
    LET k == FindIndex(habits, habitId)
    IN  IF k = 0 THEN habits
        ELSE [habits EXCEPT ![k] = SetProp(@, "completionDates", ToggledDates(@, dateStr))]

\* toggleHabitCompletion: the stored item afterwards (nothing is saved when no habit is found)
toggleHabitCompletion(habitId, dateStr) ==
    IF FindIndex(getHabits, habitId) = 0 THEN storage
    ELSE saveHabits(ToggleIn(getHabits, habitId, dateStr))

\* habit.name || 'Unnamed Habit' and the like: the stored value unless absent or falsy
OrElse(habit, field, falsy, default) ==
    IF Has(habit, field) /\ habit[field] # falsy THEN habit[field] ELSE default

\* migrateHabits: the stored item afterwards
migrateHabits ==
    LET habits  == getHabits
        today   == getTodayDateString
        endDate == addDaysToDate(today, DefaultSpan)
        updated == [i \in 1..Len(habits) |->
                      [id              |-> OrElse(habits[i], "id", <<>>, toString(now)),
                       name            |-> OrElse(habits[i], "name", <<>>, UnnamedHabit),
                       startDate       |-> OrElse(habits[i], "startDate", undefined, today),
                       endDate         |-> OrElse(habits[i], "endDate", undefined, endDate),
                       createdAt       |-> OrElse(habits[i], "createdAt", <<>>, toISOString(now)),
                       completionDates |-> OrElse(habits[i], "completionDates", <<>>, <<>>)]]
    IN  IF habits # updated THEN saveHabits(updated) ELSE storage

\* renderHabits: the cards shown
renderHabits == [i \in 1..Len(getHabits) |-> renderHabit(getHabits[i])]

-----------------------------------------------------------------------------
(* Inputs *)

\* the canonical date string of the day k days after 2024-01-01
D(k) == getDateString([day |-> DaysFromCivil(2024, 1, 1) + k, ms |-> 0])

Names == {<<" ", "g", " ">>}

StartDates == {D(0), D(1)}

EndDates == {D(0), D(1), D(91)}

ToggleDates == {D(0), D(1)}

\* an id no habit was ever given
MissingId == toString([day |-> DaysFromCivil(2024, 1, 1), ms |-> 0])

HabitIds == {getHabits[i].id : i \in {j \in 1..Len(getHabits) : Has(getHabits[j], "id")}}
                \cup {MissingId}

ValidatorStarts == {D(0), D(1)}

ValidatorEnds == {D(k) : k \in (-1)..MaxSpan}

FirstDay == DaysFromCivil(2024, 1, 1) + 1

\* the clock when the page is loaded: the last millisecond of 2024-01-02 (UTC)
LoadTime == [day |-> FirstDay, ms |-> MsPerDay - 1]

\* milliseconds from LoadTime to a time on its day or the next
Elapsed(date) == IF date.day = FirstDay THEN date.ms - LoadTime.ms ELSE date.ms + 1

\* the clock after k milliseconds
ClockAfter(k) == IF k = 0 THEN LoadTime ELSE [day |-> FirstDay + 1, ms |-> k - 1]

-----------------------------------------------------------------------------
(* Operations *)

ValidateDateRange ==
    \E startDateStr \in ValidatorStarts, endDateStr \in ValidatorEnds :
        /\ call' = [op |-> "validateDateRange", startDateStr |-> startDateStr,
                    endDateStr |-> endDateStr,
                    ret |-> validateDateRange(startDateStr, endDateStr)]
        /\ UNCHANGED <<storage, now>>

CreateHabit ==
    \E name \in Names, startDateStr \in StartDates, endDateStr \in EndDates :
        LET r == createHabit(name, startDateStr, endDateStr)
        IN  /\ r.ret.success => Len(getHabits) < MaxHabits
            /\ storage' = r.storage
            /\ call' = [op |-> "createHabit", name |-> name, startDateStr |-> startDateStr,
                        endDateStr |-> endDateStr, ret |-> r.ret]
            /\ UNCHANGED now

DeleteHabit ==
    \E habitId \in HabitIds :
        /\ storage' = deleteHabit(habitId)
        /\ call' = [op |-> "deleteHabit", habitId |-> habitId]
        /\ UNCHANGED now

ToggleHabitCompletion ==
    \E habitId \in HabitIds, dateStr \in ToggleDates :
        /\ storage' = toggleHabitCompletion(habitId, dateStr)
        /\ call' = [op |-> "toggleHabitCompletion", habitId |-> habitId, dateStr |-> dateStr]
        /\ UNCHANGED now

MigrateHabits ==
    /\ storage' = migrateHabits
    /\ call' = [op |-> "migrateHabits"]
    /\ UNCHANGED now

RenderHabits ==
    /\ call' = [op |-> "renderHabits", ret |-> renderHabits]
    /\ UNCHANGED <<storage, now>>

\* the clock advances by a millisecond, into the next day (UTC) after the day's last one
Tick ==
    /\ Elapsed(now) < MaxTicks
    /\ now' = IF now.ms = MsPerDay - 1
              THEN [day |-> now.day + 1, ms |-> 0]
              ELSE [now EXCEPT !.ms = @ + 1]
    /\ UNCHANGED <<storage, call>>

NoCall == [op |-> "none"]

Init ==
    /\ storage = <<>>
    /\ now = LoadTime
    /\ call = NoCall

Next ==
    \/ CreateHabit
    \/ DeleteHabit
    \/ ToggleHabitCompletion
    \/ MigrateHabits
    \/ RenderHabits
    \/ Tick

Spec == Init /\ [][Next]_vars

-----------------------------------------------------------------------------
(* A store written before this page was loaded: one record of any shape the    *)
(* script may read back, with dates in either order or absent, and with        *)
(* completionDates absent, not an array, or an array that may hold duplicates  *)
(* and dates outside the range.                                                *)

StoredDates == {D(0), D(1), D(2)}

StoredCompletions == UNION {[1..k -> StoredDates] : k \in 0..MaxStored} \cup {NonArray}

StoredBase ==
    [id |-> toString([day |-> FirstDay - 1, ms |-> 1]), name |-> <<"g">>,
     createdAt |-> toISOString([day |-> FirstDay - 1, ms |-> 1])]

\* the record with the property added, unless the value is undefined
WithProp(habit, field, value) ==
    IF value = undefined THEN habit ELSE SetProp(habit, field, value)

StoredHabits ==
    LET dated == {WithProp(WithProp(StoredBase, "startDate", s), "endDate", e) :
                     s \in StoredDates \cup {undefined}, e \in StoredDates \cup {undefined}}
    IN  dated \cup {SetProp(h, "completionDates", c) : h \in dated, c \in StoredCompletions}

InitStored ==
    /\ storage \in {saveHabits(<<h>>) : h \in StoredHabits}
    /\ now \in {ClockAfter(k) : k \in 0..MaxTicks}
    /\ call = NoCall

NextStored ==
    \/ DeleteHabit
    \/ ToggleHabitCompletion
    \/ MigrateHabits
    \/ RenderHabits
    \/ Tick

SpecStored == InitStored /\ [][NextStored]_vars

-----------------------------------------------------------------------------
(* The range validator on its own: validateDateRange called with any pair of  *)
(* the dates above.                                                            *)

InitValidator == Init

NextValidator == ValidateDateRange

SpecValidator == InitValidator /\ [][NextValidator]_vars

-----------------------------------------------------------------------------
(* The page: the store is changed only by the listeners of the page, each of   *)
(* which holds the habit, the dates and the value of today of the render that  *)
(* attached it, and renders the list again after it has changed the store.     *)

\* what the listeners renderHabit attaches to one card have captured
renderHabitListeners(habit) ==
    [habit          |-> habit,
     today          |-> getTodayDateString,
     daysToShow     |-> getDaysToDisplay(habit),
     canToggleToday |-> isDateWithinRange(habit, getTodayDateString)
                           /\ getHabitStatus(habit) = "active"]

\* the page after renderHabits has run on the stored item: the cards shown and the
\* listeners attached
RenderedPageOf(item) ==
    LET habits == IF item = <<>> THEN <<>> ELSE item[1]
    IN  [op        |-> "renderHabits",
         ret       |-> [i \in 1..Len(habits) |-> renderHabit(habits[i])],
         listeners |-> [i \in 1..Len(habits) |-> renderHabitListeners(habits[i])]]

\* the name field as the user may leave it: a name, or blanks only
FormNames == Names \cup {<<" ">>}

\* a date field as the user may leave it: a date, or empty (undefined stands for '')
FormStartDates == StartDates \cup {undefined}

FormEndDates == EndDates \cup {undefined}

\* the day boxes the user clicks, of those a card shows
DayBoxes == ToggleDates

\* click on the confirm button of the add form
ConfirmAddClick ==
    \E name \in FormNames, startDate \in FormStartDates, endDate \in FormEndDates :
        LET habitName == trim(name)
        IN  IF habitName = <<>> \/ startDate = undefined \/ endDate = undefined
            THEN UNCHANGED vars
            ELSE LET result == createHabit(habitName, startDate, endDate)
                 IN  IF ~result.ret.success
                     THEN UNCHANGED vars
                     ELSE /\ Len(getHabits) < MaxHabits
                          /\ storage' = result.storage
                          /\ now' = now
                          /\ call' = RenderedPageOf(result.storage)

\* click on a day box of a card
DayBoxClick ==
    \E i \in 1..Len(call.listeners), dateStr \in DayBoxes :
        LET habit == call.listeners[i].habit
        IN  /\ Includes(call.listeners[i].daysToShow, dateStr)
            /\ IF isDateWithinRange(habit, dateStr)
               THEN /\ storage' = toggleHabitCompletion(habit.id, dateStr)
                    /\ now' = now
                    /\ call' = RenderedPageOf(toggleHabitCompletion(habit.id, dateStr))
               ELSE UNCHANGED vars

\* change of the today checkbox of a card
TodayCheckboxChange ==
    \E i \in 1..Len(call.listeners) :
        LET habit == call.listeners[i].habit
            today == call.listeners[i].today
        IN  IF call.listeners[i].canToggleToday
            THEN /\ storage' = toggleHabitCompletion(habit.id, today)
                 /\ now' = now
                 /\ call' = RenderedPageOf(toggleHabitCompletion(habit.id, today))
            ELSE UNCHANGED vars

\* click on the delete button of a card, the dialog answered either way
DeleteClick ==
    \E i \in 1..Len(call.listeners), confirm \in BOOLEAN :
        LET habit == call.listeners[i].habit
        IN  IF confirm
            THEN /\ storage' = deleteHabit(habit.id)
                 /\ now' = now
                 /\ call' = RenderedPageOf(deleteHabit(habit.id))
            ELSE UNCHANGED vars

\* the page becomes visible again
VisibilityChange ==
    /\ UNCHANGED <<storage, now>>
    /\ call' = RenderedPageOf(storage)

\* initApp on an empty store: migrateHabits finds nothing to migrate, renderHabits shows no card
InitPage ==
    /\ storage = <<>>
    /\ now = LoadTime
    /\ call = RenderedPageOf(storage)

NextPage ==
    \/ ConfirmAddClick
    \/ DayBoxClick
    \/ TodayCheckboxChange
    \/ DeleteClick
    \/ VisibilityChange
    \/ Tick

SpecPage == InitPage /\ [][NextPage]_vars

-----------------------------------------------------------------------------
(* A store written by the earlier version of the script, whose habits have an  *)
(* id, a name, createdAt and completedDates: the dates toggled on, each once,  *)
(* in the order they were toggled. The second habit of a store may instead be  *)
(* one the current version has created and toggled.                            *)

\* the arrays the earlier toggleHabitCompletion builds from [] by push and splice
PriorCompletions ==
    {c \in UNION {[1..k -> StoredDates] : k \in 0..Cardinality(StoredDates)} :
        \A a, b \in 1..Len(c) : c[a] = c[b] => a = b}

\* the habits of the earlier version created at the ms-th millisecond of 2024-01-01
PriorHabits(ms) ==
    {[id             |-> toString([day |-> FirstDay - 1, ms |-> ms]),
      name           |-> <<"g">>,
      createdAt      |-> toISOString([day |-> FirstDay - 1, ms |-> ms]),
      completedDates |-> c] : c \in PriorCompletions}

\* the habits of the current version created at that time with the range 2024-01-01..02
CurrentHabits(ms) ==
    {[id              |-> toString([day |-> FirstDay - 1, ms |-> ms]),
      name            |-> <<"g">>,
      startDate       |-> D(0),
      endDate         |-> D(1),
      createdAt       |-> toISOString([day |-> FirstDay - 1, ms |-> ms]),
      completionDates |-> c] : c \in {<<>>, <<D(0)>>, <<D(1), D(0)>>}}

InitPrior ==
    /\ storage \in {saveHabits(<<h>>) : h \in PriorHabits(1)}
                   \cup {saveHabits(<<h, g>>) :
                            h \in PriorHabits(1), g \in PriorHabits(2) \cup CurrentHabits(2)}
    /\ now \in {ClockAfter(k) : k \in 0..MaxTicks}
    /\ call = NoCall

NextPrior ==
    \/ MigrateHabits
    \/ ToggleHabitCompletion
    \/ DeleteHabit
    \/ RenderHabits
    \/ Tick

SpecPrior == InitPrior /\ [][NextPrior]_vars

-----------------------------------------------------------------------------
(* Claims *)

Statuses == {"not-started", "active", "completed"}

\* the derived statistics of a habit at the current date
Stats(habit) ==
    [currentStreak        |-> calculateCurrentStreak(habit),
     bestStreak           |-> calculateLongestStreak(habit),
     totalCompleted       |-> calculateTotalCompleted(habit),
     completionPercentage |-> calculateCompletionPercentage(habit)]

\* dateStr lies outside [startDate, endDate] of the habit
OutsideRange(habit, dateStr) ==
    ~(/\ Has(habit, "startDate") /\ Has(habit, "endDate")
      /\ habit.startDate <= dateStr /\ dateStr <= habit.endDate)

HasDates(habit) == Has(habit, "startDate") /\ Has(habit, "endDate")

ProbeDates == {D(k) : k \in (-1)..3}

\* C1: in every store state, toggling the same (habitId, date) twice in succession
\* leaves the date's membership in the habit's completionDates and the habit's
\* currentStreak, bestStreak, totalCompleted and completionPercentage as they were.
C1_ToggleTwiceRestores ==
    [][(call'.op = "toggleHabitCompletion" /\ now' = now) =>
        LET before == getHabits
            once   == getHabits'
            twice  == ToggleIn(once, call'.habitId, call'.dateStr)
            k      == FindIndex(before, call'.habitId)
        IN  k # 0 =>
              /\ isHabitCompletedOnDate(twice[k], call'.dateStr)
                    = isHabitCompletedOnDate(before[k], call'.dateStr)
              /\ Stats(twice[k]) = Stats(before[k])
      ]_vars

\* C2: for any habit state and any date today, the longest streak shown is at
\* least the current streak shown.
C2_BestAtLeastCurrent ==
    call.op = "renderHabits" =>
        \A i \in 1..Len(call.ret) : call.ret[i].bestStreak >= call.ret[i].currentStreak

\* C3: in every state reached by createHabit, toggleHabitCompletion, deleteHabit
\* and migrateHabits calls, with the clock free not to advance between two calls,
\* no two habits in the store have the same id.
C3_UniqueIds ==
    \A i, j \in 1..Len(getHabits) : i # j => getHabits[i].id # getHabits[j].id

\* C4: in every store state reached from the empty store, every habit has endDate
\* strictly after startDate and a day grid of at most MAX_HABIT_DURATION_DAYS entries.
C4_GridWithinMaximum ==
    \A i \in 1..Len(getHabits) :
        /\ getHabits[i].endDate > getHabits[i].startDate
        /\ Len(getDaysToDisplay(getHabits[i])) <= MAX_HABIT_DURATION_DAYS

\* C5: for a record that lacks completionDates, startDate or endDate (or whose
\* completionDates is no array) the statistics and the classifier yield the safe
\* defaults: 0 for both streaks, the total and the percentage, one of the three
\* statuses, and no days when the range cannot be computed.
C5_SafeDefaults ==
    call.op = "renderHabits" =>
        \A i \in 1..Len(call.ret) :
            LET habit == getHabits[i]
                card  == call.ret[i]
            IN  (NoCompletionArray(habit) \/ ~HasDates(habit)) =>
                  /\ card.currentStreak = 0
                  /\ card.bestStreak = 0
                  /\ card.totalCompleted = 0
                  /\ card.completionPercent = 0
                  /\ card.status \in Statuses
                  /\ (~HasDates(habit) => card.daysToShow = <<>>)

\* C6: for every habit (a record with a startDate and an endDate, in either order)
\* and every multiset of dates in completionDates, duplicates and dates outside
\* the range included, calculateCompletionPercentage is an integer from 0 to 100.
C6_PercentageWithinBounds ==
    \A i \in 1..Len(getHabits) :
        HasDates(getHabits[i]) => calculateCompletionPercentage(getHabits[i]) \in 0..100

\* a habit holding more in-range completion entries than its range has days has been rendered
C6_Witness ==
    /\ call.op = "renderHabits"
    /\ \E i \in 1..Len(call.ret) :
          /\ HasDates(getHabits[i])
          /\ call.ret[i].daysToShow # <<>>
          /\ call.ret[i].totalCompleted > Len(call.ret[i].daysToShow)
          /\ call.ret[i].completionPercent = 100

\* seq with x put in after position p
InsertAt(seq, p, x) == SubSeq(seq, 1, p) \o <<x>> \o SubSeq(seq, p + 1, Len(seq))

\* C7: for every habit, every date today and every date d outside
\* [startDate, endDate], adding d to completionDates (in front or at the end) leaves
\* calculateTotalCompleted, calculateCurrentStreak and calculateLongestStreak unchanged.
C7_OutOfRangeDateIgnored ==
    \A i \in 1..Len(getHabits), d \in ProbeDates :
        LET habit == getHabits[i]
            dates == IF NoCompletionArray(habit) THEN <<>> ELSE habit.completionDates
        IN  OutsideRange(habit, d) =>
              \A p \in {0, Len(dates)} :
                  LET added == SetProp(habit, "completionDates", InsertAt(dates, p, d))
                  IN  /\ calculateTotalCompleted(added) = calculateTotalCompleted(habit)
                      /\ calculateCurrentStreak(added) = calculateCurrentStreak(habit)
                      /\ calculateLongestStreak(added) = calculateLongestStreak(habit)

\* a toggle has just added an out-of-range date to a habit that has in-range completions
C7_Witness ==
    /\ call.op = "toggleHabitCompletion"
    /\ \E i \in 1..Len(getHabits) :
          LET habit == getHabits[i]
          IN  /\ habit.id = call.habitId
              /\ HasDates(habit)
              /\ OutsideRange(habit, call.dateStr)
              /\ ~NoCompletionArray(habit)
              /\ habit.completionDates # <<>>
              /\ habit.completionDates[Len(habit.completionDates)] = call.dateStr
              /\ calculateTotalCompleted(habit) > 0
              /\ calculateCurrentStreak(habit) > 0

\* the number of days from 2024-01-01 to a date of the validator's inputs
DayIndex(dateStr) == CHOOSE k \in (-1)..MaxSpan : D(k) = dateStr

InvalidOrder == <<"End date must be after start date">>

DurationExceeded(days) ==
    <<"Maximum duration is ", MAX_HABIT_DURATION_DAYS, " days. Your range is ", days, " days.">>

\* C8: validateDateRange(start, end) is valid exactly when the end is 1 to 90 days
\* after the start; an end not after the start fails with InvalidOrder, an end more
\* than 90 days after it fails with DurationExceeded and a message holding the
\* computed difference (152 for 2024-01-01..2024-06-01).
C8_ValidatorVerdict ==
    call.op = "validateDateRange" =>
        LET diff == DayIndex(call.endDateStr) - DayIndex(call.startDateStr)
        IN  /\ call.ret.valid <=> (1 <= diff /\ diff <= 90)
            /\ diff <= 0 => call.ret = [valid |-> FALSE, error |-> InvalidOrder]
            /\ diff > 90 => call.ret = [valid |-> FALSE, error |-> DurationExceeded(diff)]
            /\ (call.startDateStr = 20240101 /\ call.endDateStr = 20240601) =>
                  call.ret.error = DurationExceeded(152)

\* the validator has rejected 2024-01-01..2024-06-01
C8_Witness ==
    /\ call.op = "validateDateRange"
    /\ call.startDateStr = 20240101
    /\ call.endDateStr = 20240601
    /\ ~call.ret.valid
    /\ call.ret.error[4] = 152

\* C9: createHabit changes the store if and only if validateDateRange accepts the
\* dates: on a failure it returns the reason and the stored list is unchanged, on
\* success the stored list is the previous list followed by one new habit with the
\* given dates and an empty completionDates.
C9_CreateChangesStoreIffValid ==
    [][(call'.op = "createHabit" /\ now' = now) =>
        LET validation == validateDateRange(call'.startDateStr, call'.endDateStr)
            before     == getHabits
            after      == getHabits'
        IN  /\ (storage' # storage) <=> validation.valid
            /\ ~validation.valid =>
                  /\ call'.ret = [success |-> FALSE, error |-> validation.error]
                  /\ after = before
            /\ validation.valid =>
                  /\ Len(after) = Len(before) + 1
                  /\ SubSeq(after, 1, Len(before)) = before
                  /\ after[Len(after)].startDate = call'.startDateStr
                  /\ after[Len(after)].endDate = call'.endDateStr
                  /\ after[Len(after)].completionDates = <<>>
                  /\ call'.ret = [success |-> TRUE, habit |-> after[Len(after)]]
      ]_vars

\* createHabit has appended a habit to a store that already held one
C9_Witness ==
    /\ call.op = "createHabit"
    /\ call.ret.success
    /\ Len(getHabits) = 2
    /\ getHabits[2] = call.ret.habit

\* C10: toggleHabitCompletion and deleteHabit called with a habitId no stored habit
\* has leave the stored habit list exactly as it was.
C10_MissingRecordIsNoOp ==
    [][(/\ call'.op \in {"toggleHabitCompletion", "deleteHabit"}
        /\ now' = now
        /\ \A i \in 1..Len(getHabits) : getHabits[i].id # call'.habitId)
       => getHabits' = getHabits
      ]_vars

\* deleteHabit has been called with an id no habit has, on a store holding habits
C10_Witness ==
    /\ call.op = "deleteHabit"
    /\ call.habitId = MissingId
    /\ Len(getHabits) > 0

\* C11: in any store reached through createHabit, toggleHabitCompletion and deleteHabit,
\* deleteHabit(habitId) for a stored habit removes exactly that one record: the list is
\* one shorter, no habit with that id is left, and the others stay as they were, in order.
C11_DeleteRemovesExactlyOne ==
    [][(/\ call'.op = "deleteHabit"
        /\ now' = now
        /\ \E i \in 1..Len(getHabits) : getHabits[i].id = call'.habitId)
       => LET before == getHabits
              after  == getHabits'
          IN  /\ Len(after) = Len(before) - 1
              /\ \A i \in 1..Len(after) : after[i].id # call'.habitId
              /\ \E k \in 1..Len(before) :
                    /\ before[k].id = call'.habitId
                    /\ after = SubSeq(before, 1, k - 1) \o SubSeq(before, k + 1, Len(before))
      ]_vars

\* C12: for every habit with startDate <= endDate and every date today, getHabitStatus
\* returns 'not-started' iff today < startDate, 'active' iff startDate <= today <= endDate
\* (today = endDate is active), and 'completed' iff today > endDate.
C12_StatusClassification ==
    \A i \in 1..Len(getHabits) :
        LET habit  == getHabits[i]
            status == getHabitStatus(habit)
        IN  (HasDates(habit) /\ habit.startDate <= habit.endDate)
            => /\ status \in Statuses
               /\ status = "not-started" <=> getTodayDateString < habit.startDate
               /\ status = "active" <=> (habit.startDate <= getTodayDateString /\ getTodayDateString <= habit.endDate)
               /\ status = "completed" <=> getTodayDateString > habit.endDate

\* a habit has been rendered on the last day of its range, which began earlier, and is active
C12_Witness ==
    /\ call.op = "renderHabits"
    /\ \E i \in 1..Len(call.ret) :
          /\ HasDates(getHabits[i])
          /\ getHabits[i].startDate < getHabits[i].endDate
          /\ getHabits[i].endDate = getTodayDateString
          /\ call.ret[i].status = "active"

\* the date string of the day before today
YesterdayString == getDateString([day |-> now.day - 1, ms |-> 0])

\* dateStr is an entry of the habit's completionDates
Completed(habit, dateStr) ==
    /\ Has(habit, "completionDates")
    /\ habit.completionDates # NonArray
    /\ \E j \in 1..Len(habit.completionDates) : habit.completionDates[j] = dateStr

\* C13: the current streak counts the consecutive completed days ending today, or ending
\* yesterday if today was skipped: a habit with yesterday completed and today not
\* completed (both days in its range) has a current streak of at least 1.
C13_GraceDayForSkippedToday ==
    [][(call'.op = "renderHabits" /\ now' = now)
       => \A i \in 1..Len(getHabits) :
             LET habit == getHabits[i]
             IN  (/\ ~OutsideRange(habit, YesterdayString)
                  /\ ~OutsideRange(habit, getTodayDateString)
                  /\ Completed(habit, YesterdayString)
                  /\ ~Completed(habit, getTodayDateString))
                 => call'.ret[i].currentStreak >= 1
      ]_vars

\* the date string of the day j days before today
DaysAgoString(j) == getDateString([day |-> now.day - j, ms |-> 0])

CompletedDays(habit) ==
    IF ~Has(habit, "completionDates") \/ habit.completionDates = NonArray THEN {}
    ELSE {getDateFromString(habit.completionDates[j]).day :
            j \in {n \in 1..Len(habit.completionDates) :
                     ~OutsideRange(habit, habit.completionDates[n])}}

\* the length of the longest run of consecutive days in a finite set of day numbers
LongestRun(days) ==
    CHOOSE k \in 0..Cardinality(days) :
        /\ k > 0 => \E s \in days : \A j \in 0..(k - 1) : s + j \in days
        /\ \A s \in days : \E j \in 0..k : s + j \notin days

\* C15: for every habit, calculateLongestStreak returns the length of the longest run of
\* consecutive calendar days each of which is an in-range member of completionDates: 0
\* when there is none, at least 1 otherwise, whatever the order or multiplicity of the entries.
C15_LongestStreakIsLongestRun ==
    [][(call'.op = "renderHabits" /\ now' = now)
       => \A i \in 1..Len(getHabits) :
             call'.ret[i].bestStreak = LongestRun(CompletedDays(getHabits[i]))
      ]_vars

\* the properties of a habit record other than completionDates
FixedFields == {"id", "name", "startDate", "endDate", "createdAt"}

\* C16: toggleHabitCompletion(habitId, date) on a stored habit flips the membership of
\* date in that habit's completionDates and changes nothing else: the membership of every
\* other date, the habit's id, name, startDate, endDate and createdAt, and every other
\* habit in the store stay as they were.
C16_ToggleFlipsOnlyThatDate ==
    [][(/\ call'.op = "toggleHabitCompletion"
        /\ now' = now
        /\ \E i \in 1..Len(getHabits) : getHabits[i].id = call'.habitId)
       => LET before == getHabits
              after  == getHabits'
              k      == CHOOSE i \in 1..Len(before) :
                           /\ before[i].id = call'.habitId
                           /\ \A j \in 1..(i - 1) : before[j].id # call'.habitId
          IN  /\ Len(after) = Len(before)
              /\ \A i \in 1..Len(before) : i # k => after[i] = before[i]
              /\ \A f \in FixedFields :
                    /\ Has(after[k], f) <=> Has(before[k], f)
                    /\ Has(before[k], f) => after[k][f] = before[k][f]
              /\ Completed(after[k], call'.dateStr) <=> ~Completed(before[k], call'.dateStr)
              /\ \A d \in ProbeDates \ {call'.dateStr} :
                    Completed(after[k], d) <=> Completed(before[k], d)
      ]_vars

\* toggleHabitCompletion has removed a date from one of two stored habits, whose other
\* completed date it has left in place
C16_Witness ==
    /\ call.op = "toggleHabitCompletion"
    /\ Len(getHabits) = 2
    /\ \E i \in 1..2 :
          /\ getHabits[i].id = call.habitId
          /\ ~Completed(getHabits[i], call.dateStr)
          /\ \E d \in ProbeDates : Completed(getHabits[i], d)

\* C17: starting from an empty store, after any sequence of confirm-add, day-box click,
\* today-checkbox change, confirmed delete and re-render, interleaved with the day
\* advancing, every stored habit's completionDates holds no date twice and only dates
\* within that habit's [startDate, endDate].
C17_PageKeepsCompletionsClean ==
    \A i \in 1..Len(getHabits) :
        LET dates == getHabits[i].completionDates
        IN  /\ \A a, b \in 1..Len(dates) : dates[a] = dates[b] => a = b
            /\ \A a \in 1..Len(dates) : ~OutsideRange(getHabits[i], dates[a])

\* the entries of a list, as a set
Entries(seq) == {seq[j] : j \in 1..Len(seq)}

\* the dates a stored record has as completed: those of completionDates, or of the
\* earlier version's completedDates when the record has no completionDates
RecordedDates(habit) ==
    IF Has(habit, "completionDates")
    THEN IF habit.completionDates = NonArray THEN {} ELSE Entries(habit.completionDates)
    ELSE IF Has(habit, "completedDates") THEN Entries(habit.completedDates)
    ELSE {}

\* C18: migrateHabits preserves each habit's recorded completions: for every stored
\* record, one written by the earlier version (completedDates, no startDate or endDate)
\* included, the set of dates recorded as completed is the same after migrateHabits as
\* before it, and a second migrateHabits call changes nothing.
C18_MigratePreservesCompletions ==
    [][(call'.op = "migrateHabits")
       => LET before == getHabits
              after  == getHabits'
          IN  /\ Len(after) = Len(before)
              /\ \A i \in 1..Len(before) : RecordedDates(after[i]) = RecordedDates(before[i])
              /\ call.op = "migrateHabits" => storage' = storage
      ]_vars

====
